---- MODULE Spec2Model ----
(***************************************************************************)
(* Model of the searchbiz Google Places scraper: the search / paginate /   *)
(* enrich pipeline of GooglePlacesScraper (src/src/scraper.py), the record *)
(* normalizer of src/src/data_processor.py, the helpers of                 *)
(* src/src/utils.py and the command line entry point places_scraper.py.    *)
(*                                                                         *)
(* Encoding of Python values:                                              *)
(*   dict          a function whose DOMAIN is the set of keys present      *)
(*   None / value  the sequences << >> and << value >>                     *)
(*   phone number  a sequence of one-character strings                     *)
(*   other str     a TLA+ string                                           *)
(*                                                                         *)
(* Two specifications share the pipeline actions:                          *)
(*   Spec      a caller invokes scrape_places with arbitrary arguments     *)
(*   SpecMain  one run of main() of places_scraper.py, which the user may  *)
(*             interrupt (KeyboardInterrupt) at any step                   *)
(***************************************************************************)
EXTENDS Integers, Sequences, FiniteSets, TLC

VARIABLES
    pc,               \* position of the single thread of control
    api_key,          \* GooglePlacesScraper.api_key / main's api_key (None = << >>)
    radius,           \* argument of scrape_places / search_places
    fetch_details,    \* argument of scrape_places
    places,           \* search_places: accumulator
    next_page_token,  \* search_places: local, None = << >>
    idx,              \* scrape_places: index of the for loop (1-based)
    place_details,    \* scrape_places: local, None = << >>
    results,          \* scrape_places: accumulator
    ret,              \* value returned by scrape_places
    export_results,   \* export_data: status map built so far
    outcome,          \* how the run of main() ended
    stdout,           \* the messages printed, in order
    events,           \* provider requests, waits and file writes, in order
    answers,          \* the provider's answers to the search requests so far
    details,          \* the return value of get_place_details per item
    caller,           \* who called scrape_places / export_data: "main" or "library"
    formats,          \* export_data: the formats to write, in order
    fmt_i,            \* export_data: index of the for loop (1-based)
    export_arg,       \* export_data: its argument data, the records to write
    place_type,       \* the category searched, a sequence of characters
    location_text     \* the location searched, a sequence of characters

vars == <<pc, api_key, radius, fetch_details, places, next_page_token, idx,
          place_details, results, ret, export_results, outcome, stdout,
          events, answers, details, caller,
                   formats, fmt_i, export_arg, place_type, location_text>>

-----------------------------------------------------------------------------
(* Bounds of the model *)

MaxPages == 2

MaxPageLen == 2

MaxPlaces == 2

(* Program constants *)

DEFAULT_RADIUS == 50000

DEFAULT_FETCH_DETAILS == TRUE

PROVIDER_MAX_RADIUS == 50000

VALIDATE_RADIUS == 1000

\* "business"
DEFAULT_PLACE_TYPE == <<"b", "u", "s", "i", "n", "e", "s", "s">>

\* "La Defense" with an acute accent on the first e
DEFAULT_LOCATION == <<"L", "a", " ", "D", "e_acute", "f", "e", "n", "s", "e">>

-----------------------------------------------------------------------------
(* Python helpers *)

None == << >>

Some(v) == << v >>

EmptyDict == << >>

\* dict.get(k, default)
Get(d, k, default) == IF k \in DOMAIN d THEN d[k] ELSE default

\* truth value of a dict
DictTruthy(d) == DOMAIN d # {}

\* variant: "is not None" instead of the truth value
StrTruthy_is_not_none(o) == o # None

\* truth value of an Optional[str]
StrTruthy(o) == o # None /\ o[1] # ""

-----------------------------------------------------------------------------
(* src/src/utils.py *)

Separators == {" ", "-", "(", ")"}

NotSeparator(c) == c \notin Separators

\* variant: the separators are removed from every number
format_phone_number_always_strips(phone) ==
    SelectSeq(phone, NotSeparator)

format_phone_number(phone) ==
    IF phone = << >> THEN << >>
    ELSE IF phone[1] = "+" THEN phone
    ELSE SelectSeq(phone, NotSeparator)

\* Characters are one-character strings; a character outside ASCII is
\* written by name: "a_tilde", "e_acute", "E_acute", "I_dot" (capital I with
\* dot above), "dot_above" (the combining dot), "sup2" (superscript two).
LowerLetters ==
    <<"a", "b", "c", "d", "e", "f", "g", "h", "i", "j", "k", "l", "m",
      "n", "o", "p", "q", "r", "s", "t", "u", "v", "w", "x", "y", "z">>

UpperLetters ==
    <<"A", "B", "C", "D", "E", "F", "G", "H", "I", "J", "K", "L", "M",
      "N", "O", "P", "Q", "R", "S", "T", "U", "V", "W", "X", "Y", "Z">>

Digits == {"0", "1", "2", "3", "4", "5", "6", "7", "8", "9"}

Range(sq) == {sq[i] : i \in 1..Len(sq)}

\* the characters for which str.isalnum() is true: letters and digits of
\* any script
AlnumChars ==
    Range(LowerLetters) \cup Range(UpperLetters) \cup Digits
        \cup {"a_tilde", "e_acute", "E_acute", "I_dot", "sup2"}

isalnum(c) == c \in AlnumChars

\* str.lower() of the characters it changes; the result may be more than
\* one character long
LowerTable ==
    [c \in Range(UpperLetters) \cup {"E_acute", "I_dot"} |->
        IF c = "E_acute" THEN <<"e_acute">>
        ELSE IF c = "I_dot" THEN <<"i", "dot_above">>
        ELSE <<LowerLetters[CHOOSE i \in 1..Len(UpperLetters) : UpperLetters[i] = c]>>]

\* str.lower() of one character
lower_char(c) == IF c \in DOMAIN LowerTable THEN LowerTable[c] ELSE <<c>>

RECURSIVE lower(_)
lower(text) ==
    IF text = << >> THEN << >> ELSE lower_char(Head(text)) \o lower(Tail(text))

\* line 62: str.replace of ' ', ',' and '/' by '_'
replace_problematic(text) ==
    [i \in 1..Len(text) |-> IF text[i] \in {" ", ",", "/"} THEN "_" ELSE text[i]]

\* variant: only ASCII letters and digits count as alphanumeric
is_kept_ascii(c) ==
    c \in Range(LowerLetters) \cup Range(UpperLetters) \cup Digits \cup {"_", "-"}

\* line 64: the characters kept
is_kept(c) == isalnum(c) \/ c \in {"_", "-"}

sanitize_filename(text) ==
    lower(SelectSeq(replace_problematic(text), is_kept))

-----------------------------------------------------------------------------
(* src/src/data_processor.py *)

\* line 76: str(int(time.time())), the same stand-in for every call
Timestamp == <<"1", "7">>

Extension(fmt) ==
    IF fmt = "json" THEN <<"j", "s", "o", "n">> ELSE <<"c", "s", "v">>

\* lines 76-80
generate_filename(pt, loc, fmt) ==
    sanitize_filename(pt) \o <<"_">> \o sanitize_filename(loc) \o <<"_">>
        \o Timestamp \o <<".">> \o Extension(fmt)

extract_basic(place_basic) ==
    LET geometry == Get(place_basic, "geometry", EmptyDict)
        location == Get(geometry, "location", EmptyDict)
    IN  [name               |-> Get(place_basic, "name", ""),
         place_id           |-> Get(place_basic, "place_id", ""),
         address            |-> Get(place_basic, "formatted_address", ""),
         latitude           |-> Get(location, "lat", ""),
         longitude          |-> Get(location, "lng", ""),
         rating             |-> Get(place_basic, "rating", ""),
         user_ratings_total |-> Get(place_basic, "user_ratings_total", ""),
         phone_number       |-> << >>,
         website            |-> ""]

\* variant: the details are not looked at
extract_place_data_ignores_details(place_basic, details_opt) ==
    extract_basic(place_basic)

\* variant: the coordinates always come from the search result
extract_place_data_keeps_basic_coordinates(place_basic, details_opt) ==
    LET extracted == extract_basic(place_basic)
    IN  IF details_opt = None \/ ~DictTruthy(details_opt[1]) THEN extracted
        ELSE
          LET d == details_opt[1]
          IN  [extracted EXCEPT
                 !.name = Get(d, "name", extracted.name),
                 !.address = Get(d, "formatted_address", extracted.address),
                 !.rating = Get(d, "rating", extracted.rating),
                 !.user_ratings_total =
                     Get(d, "user_ratings_total", extracted.user_ratings_total),
                 !.phone_number =
                     format_phone_number(Get(d, "formatted_phone_number", << >>)),
                 !.website = Get(d, "website", "")]

\* variant: a field the search result does not have gets no key
extract_place_data_drops_unknown(place_basic, details_opt) ==
    LET extracted == extract_basic(place_basic)
    IN  [k \in {x \in DOMAIN extracted :
                  x \in DOMAIN place_basic \cup {"phone_number", "latitude", "longitude"}}
           |-> extracted[k]]

extract_place_data(place_basic, details_opt) ==
    LET extracted == extract_basic(place_basic)
    IN  IF details_opt = None \/ ~DictTruthy(details_opt[1]) THEN extracted
        ELSE
          LET d == details_opt[1]
              updated ==
                [extracted EXCEPT
                   !.name = Get(d, "name", extracted.name),
                   !.address = Get(d, "formatted_address", extracted.address),
                   !.rating = Get(d, "rating", extracted.rating),
                   !.user_ratings_total =
                       Get(d, "user_ratings_total", extracted.user_ratings_total),
                   !.phone_number =
                       format_phone_number(Get(d, "formatted_phone_number", << >>)),
                   !.website = Get(d, "website", "")]
              details_geometry == Get(d, "geometry", EmptyDict)
              details_location == Get(details_geometry, "location", EmptyDict)
          IN  IF DictTruthy(details_location)
              THEN [updated EXCEPT
                      !.latitude = Get(details_location, "lat", updated.latitude),
                      !.longitude = Get(details_location, "lng", updated.longitude)]
              ELSE updated

-----------------------------------------------------------------------------
(* The provider (Google Places API): what it may answer *)

BasicPool ==
    { [place_id |-> "p1", name |-> "Alpha", formatted_address |-> "1 rue A",
       geometry |-> [location |-> [lat |-> "48.1", lng |-> "2.1"]],
       rating |-> "4.5", user_ratings_total |-> "10"],
      [place_id |-> "p2", name |-> "Beta"] }

DetailPool ==
    { [place_id |-> "px", name |-> "Alpha SA",
       formatted_address |-> "1 rue A, Paris",
       geometry |-> [location |-> [lat |-> "48.2", lng |-> "2.2"]],
       rating |-> "4.7", user_ratings_total |-> "12",
       formatted_phone_number |-> <<"(", "5", ")", " ", "1", "-", "2">>,
       website |-> "https://a.example"],
      [formatted_phone_number |-> <<"+", "1", " ", "5">>,
       geometry |-> [location |-> EmptyDict]] }

\* the continuation token the provider issues with its j-th page
TokenNames == <<"tA", "tB", "tC", "tD", "tE">>

TokenOf(j) == TokenNames[((j - 1) % Len(TokenNames)) + 1]

ErrorStatuses == {"REQUEST_DENIED", "OVER_QUERY_LIMIT", "INVALID_REQUEST"}

\* transport outcomes of session.get(...) / raise_for_status()
TransportFailures == {"conn_error", "http_error"}

Json(d) == [kind |-> "json", data |-> d]

Failure(k) == [kind |-> k, data |-> EmptyDict]

ResultLists(n) ==
    UNION { [1..k -> BasicPool] : k \in 0..(IF n < MaxPageLen THEN n ELSE MaxPageLen) }

\* the next_page_token part of the j-th page: absent, or a token
TokenParts(j) ==
    {EmptyDict}
      \cup (IF j < MaxPages THEN {[next_page_token |-> TokenOf(j)]} ELSE {})

\* every answer to the search request that follows `served` pages holding
\* `held` results in all
SearchResponses(served, held) ==
    { Json([status |-> "OK", results |-> rs] @@ tp) :
          rs \in ResultLists(MaxPlaces - held),
          tp \in TokenParts(served + 1) }
      \cup { Json([status |-> "OK"]) }
      \cup { Json([status |-> "ZERO_RESULTS", results |-> << >>]) }
      \cup { Json([status |-> s, error_message |-> "denied"]) : s \in ErrorStatuses }
      \cup { Json(EmptyDict) }
      \cup { Failure(k) : k \in TransportFailures }

DetailResponses ==
    { Json([status |-> "OK", result |-> d]) : d \in DetailPool }
      \cup { Json([status |-> "NOT_FOUND"]) }
      \cup { Json(EmptyDict) }
      \cup { Failure("conn_error") }

-----------------------------------------------------------------------------
(* What is recorded of a run *)

SearchRequest(params) == [type |-> "search", params |-> params]

DetailRequest(params) == [type |-> "details", params |-> params]

ValidateRequest(params) == [type |-> "validate", params |-> params]

Delay(which) == [type |-> "sleep", delay |-> which]

FileWrite(fmt, ok) ==
    [type |-> "write", format |-> fmt, ok |-> ok,
     filename |-> generate_filename(place_type, location_text, fmt)]

Echo(msg) == Append(stdout, msg)

-----------------------------------------------------------------------------
(* Exceptions: the classes the code raises or catches *)

\* isinstance(exc, Exception): KeyboardInterrupt derives from BaseException only
IsException(exc) ==
    exc \in {"Exception", "KeyError", "ValueError", "RequestException"}

IsRequestException(exc) == exc = "RequestException"

\* places_scraper.py:60-63, the except clauses of main's try block
main_catches(exc) == exc = "KeyboardInterrupt" \/ IsException(exc)

main_except(exc) ==
    /\ stdout' = Echo(IF exc = "KeyboardInterrupt"
                      THEN "Scraping interrupted by user."
                      ELSE "An error occurred")
    /\ outcome' = IF exc = "KeyboardInterrupt" THEN "interrupted" ELSE "error"
    /\ pc' = "exit"

\* an exception no frame catches ends the process with a traceback
uncaught(exc) ==
    /\ outcome' = "crash"
    /\ pc' = "exit"
    /\ UNCHANGED stdout

\* an exception leaves scrape_places (which has no try block of its own)
scrape_places_raise(exc) ==
    IF caller = "main"
    THEN IF main_catches(exc) THEN main_except(exc) ELSE uncaught(exc)
    ELSE /\ pc' = "raised"
         /\ UNCHANGED <<stdout, outcome>>

-----------------------------------------------------------------------------
(* GooglePlacesScraper.search_places, src/src/scraper.py:25-80 *)

\* lines 40-49: top of the loop, the request parameters are built
\* variant: the continuation token is never put into the request
search_params_without_token == [key |-> api_key, radius |-> radius]

search_params ==
    [key |-> api_key, radius |-> radius]
      @@ (IF StrTruthy(next_page_token)
          THEN [pagetoken |-> next_page_token[1]] ELSE EmptyDict)

\* variant: no wait before a continuation token is reused
search_places_loop_without_sleep ==
    /\ pc = "sp_top"
    /\ pc' = "sp_get"
    /\ UNCHANGED <<api_key, radius, fetch_details, places, next_page_token, idx,
                   place_details, results, ret, export_results, outcome,
                   stdout, events, answers, details, caller,
                   formats, fmt_i, export_arg, place_type, location_text>>

search_places_loop ==
    /\ pc = "sp_top"
    /\ pc' = IF StrTruthy(next_page_token) THEN "sp_sleep" ELSE "sp_get"
    /\ UNCHANGED <<api_key, radius, fetch_details, places, next_page_token, idx,
                   place_details, results, ret, export_results, outcome,
                   stdout, events, answers, details, caller,
                   formats, fmt_i, export_arg, place_type, location_text>>

\* line 51: time.sleep(PAGINATION_DELAY) has elapsed
search_places_sleep ==
    /\ pc = "sp_sleep"
    /\ events' = Append(events, Delay("PAGINATION_DELAY"))
    /\ pc' = "sp_get"
    /\ UNCHANGED <<api_key, radius, fetch_details, places, next_page_token, idx,
                   place_details, results, ret, export_results, outcome,
                   stdout, answers, details, caller,
                   formats, fmt_i, export_arg, place_type, location_text>>

\* line 54: the request is sent
search_places_get ==
    /\ pc = "sp_get"
    /\ events' = Append(events, SearchRequest(search_params))
    /\ pc' = "sp_resp"
    /\ UNCHANGED <<api_key, radius, fetch_details, places, next_page_token, idx,
                   place_details, results, ret, export_results, outcome,
                   stdout, answers, details, caller,
                   formats, fmt_i, export_arg, place_type, location_text>>

\* lines 54-63: the exception the try body raises on an answer, if any
search_places_try(resp) ==
    IF resp.kind # "json" THEN "RequestException"
    ELSE IF "status" \notin DOMAIN resp.data THEN "KeyError"
    ELSE IF resp.data["status"] \notin {"OK", "ZERO_RESULTS"} THEN "Exception"
    ELSE "none"

\* lines 73-78: the except clauses
\* variant: only the "except requests.RequestException" clause
search_places_catches_network_only(exc) == IsRequestException(exc)

search_places_catches(exc) == IsException(exc)

search_places_except(exc) ==
    /\ stdout' = Echo(IF IsRequestException(exc) THEN "Network error"
                      ELSE "Error searching places")
    /\ pc' = "sp_ret"
    /\ UNCHANGED <<places, next_page_token, outcome>>

\* variant: ZERO_RESULTS discards what was accumulated
search_places_zero_results_discards ==
    /\ stdout' = Echo("No results found for")
    /\ pc' = "sp_ret"
    /\ places' = << >>
    /\ UNCHANGED <<next_page_token, outcome>>

\* lines 59-61: status ZERO_RESULTS
search_places_zero_results ==
    /\ stdout' = Echo("No results found for")
    /\ pc' = "sp_ret"
    /\ UNCHANGED <<places, next_page_token, outcome>>

\* variant: the search stops after one page
search_places_page_capped(data) ==
    LET page == Get(data, "results", << >>)
        token == IF "next_page_token" \in DOMAIN data
                 THEN Some(data["next_page_token"]) ELSE None
    IN  /\ places' = places \o page
        /\ stdout' = Echo("Retrieved")
        /\ next_page_token' = token
        /\ pc' = "sp_ret"
        /\ UNCHANGED outcome

\* lines 65-71: status OK
search_places_page(data) ==
    LET page == Get(data, "results", << >>)
        token == IF "next_page_token" \in DOMAIN data
                 THEN Some(data["next_page_token"]) ELSE None
    IN  /\ places' = places \o page
        /\ stdout' = Echo("Retrieved")
        /\ next_page_token' = token
        /\ pc' = IF StrTruthy(token) THEN "sp_top" ELSE "sp_ret"
        /\ UNCHANGED outcome

\* lines 54-78: the answer arrives and is handled
search_places_response ==
    /\ pc = "sp_resp"
    /\ \E resp \in SearchResponses(Len(answers), Len(places)) :
         /\ answers' = Append(answers, resp)
         /\ LET exc == search_places_try(resp)
            IN  IF exc # "none" THEN
                    IF search_places_catches(exc) THEN search_places_except(exc)
                    ELSE scrape_places_raise(exc) /\ UNCHANGED <<places, next_page_token>>
                ELSE IF resp.data["status"] = "ZERO_RESULTS"
                THEN search_places_zero_results
                ELSE search_places_page(resp.data)
    /\ UNCHANGED <<api_key, radius, fetch_details, idx, place_details, results,
                   ret, export_results, events, details, caller,
                   formats, fmt_i, export_arg, place_type, location_text>>

\* variant: the list of records is not started afresh
search_places_return_keeps_results ==
    /\ pc = "sp_ret"
    /\ IF places = << >>
       THEN /\ ret' = << >>
            /\ pc' = "sc_ret"
            /\ UNCHANGED <<results, idx>>
       ELSE /\ idx' = 1
            /\ pc' = "sc_item"
            /\ UNCHANGED <<results, ret>>
    /\ UNCHANGED <<api_key, radius, fetch_details, places, next_page_token,
                   place_details, export_results, outcome, stdout, events,
                   answers, details, caller,
                   formats, fmt_i, export_arg, place_type, location_text>>

\* lines 80 and 131-136: search_places returns into scrape_places
search_places_return ==
    /\ pc = "sp_ret"
    /\ IF places = << >>
       THEN /\ ret' = << >>
            /\ pc' = "sc_ret"
            /\ UNCHANGED <<results, idx>>
       ELSE /\ results' = << >>
            /\ idx' = 1
            /\ pc' = "sc_item"
            /\ UNCHANGED ret
    /\ UNCHANGED <<api_key, radius, fetch_details, places, next_page_token,
                   place_details, export_results, outcome, stdout, events,
                   answers, details, caller,
                   formats, fmt_i, export_arg, place_type, location_text>>

-----------------------------------------------------------------------------
(* GooglePlacesScraper.get_place_details, src/src/scraper.py:82-115 *)

PLACE_DETAIL_FIELDS ==
    <<"name", "formatted_address", "geometry", "rating", "user_ratings_total",
      "formatted_phone_number", "website", "place_id">>

\* lines 92-97
details_params(place_id) ==
    [key |-> api_key, place_id |-> place_id, fields |-> PLACE_DETAIL_FIELDS]

\* line 100: the request is sent (scraper.py:143 passes place['place_id'])
get_place_details_get ==
    /\ pc = "gd_get"
    /\ events' = Append(events, DetailRequest(details_params(places[idx]["place_id"])))
    /\ pc' = "gd_resp"
    /\ UNCHANGED <<api_key, radius, fetch_details, places, next_page_token, idx,
                   place_details, results, ret, export_results, outcome,
                   stdout, answers, details, caller,
                   formats, fmt_i, export_arg, place_type, location_text>>

\* lines 100-104: the exception the try body raises on an answer, if any
get_place_details_try(resp) ==
    IF resp.kind # "json" THEN "RequestException"
    ELSE IF "status" \notin DOMAIN resp.data THEN "KeyError"
    ELSE "none"

\* variant: only a missing key is caught
get_place_details_catches_key_error_only(exc) == exc = "KeyError"

\* variant: only the "except requests.RequestException" clause
get_place_details_catches_network_only(exc) == IsRequestException(exc)

\* lines 110-115: the except clauses
get_place_details_catches(exc) == IsException(exc)

\* lines 104-108: the value returned when the try body raises nothing
get_place_details_value(data) ==
    IF data["status"] # "OK" THEN None
    ELSE IF "result" \in DOMAIN data THEN Some(data["result"]) ELSE None

get_place_details_message(resp) ==
    LET exc == get_place_details_try(resp)
    IN  IF IsRequestException(exc) THEN <<"Network error getting details">>
        ELSE IF exc # "none" THEN <<"Error getting place details">>
        ELSE IF resp.data["status"] # "OK" THEN <<"Details API error">>
        ELSE << >>

\* lines 100-115: the answer arrives and is handled; the value is returned
\* to scrape_places line 143
get_place_details_response ==
    /\ pc = "gd_resp"
    /\ \E resp \in DetailResponses :
         LET exc == get_place_details_try(resp)
         IN  IF exc # "none" /\ ~get_place_details_catches(exc)
             THEN /\ scrape_places_raise(exc)
                  /\ UNCHANGED <<place_details, details>>
             ELSE LET value == IF exc # "none" THEN None
                               ELSE get_place_details_value(resp.data)
                  IN  /\ place_details' = value
                      /\ details' = Append(details, [resp |-> resp, value |-> value])
                      /\ stdout' = stdout \o get_place_details_message(resp)
                      /\ pc' = "sc_sleep"
                      /\ UNCHANGED outcome
    /\ UNCHANGED <<api_key, radius, fetch_details, places, next_page_token, idx,
                   results, ret, export_results, events, answers, caller,
                   formats, fmt_i, export_arg, place_type, location_text>>

-----------------------------------------------------------------------------
(* GooglePlacesScraper.scrape_places, src/src/scraper.py:117-151 *)

\* lines 130-131: the call, entering search_places
scrape_places_enter(r, fd) ==
    /\ radius' = r
    /\ fetch_details' = fd
    /\ stdout' = Echo("Searching for")
    /\ places' = << >>
    /\ next_page_token' = None
    /\ answers' = << >>
    /\ details' = << >>
    /\ pc' = "sp_top"

\* variant: the details are fetched whatever fetch_details says
scrape_places_item_always_fetches ==
    /\ pc = "sc_item"
    /\ stdout' = Echo("Processing place")
    /\ place_details' = None
    /\ pc' = "gd_get"
    /\ UNCHANGED <<api_key, radius, fetch_details, places, next_page_token, idx,
                   results, ret, export_results, outcome, events, answers,
                   details, caller,
                   formats, fmt_i, export_arg, place_type, location_text>>

\* lines 138-142: top of the for loop
scrape_places_item ==
    /\ pc = "sc_item"
    /\ stdout' = Echo("Processing place")
    /\ place_details' = None
    /\ pc' = IF fetch_details THEN "gd_get" ELSE "sc_extract"
    /\ UNCHANGED <<api_key, radius, fetch_details, places, next_page_token, idx,
                   results, ret, export_results, outcome, events, answers,
                   details, caller,
                   formats, fmt_i, export_arg, place_type, location_text>>

\* line 145: time.sleep(REQUEST_DELAY) has elapsed
scrape_places_sleep ==
    /\ pc = "sc_sleep"
    /\ events' = Append(events, Delay("REQUEST_DELAY"))
    /\ pc' = "sc_extract"
    /\ UNCHANGED <<api_key, radius, fetch_details, places, next_page_token, idx,
                   place_details, results, ret, export_results, outcome,
                   stdout, answers, details, caller,
                   formats, fmt_i, export_arg, place_type, location_text>>

\* variant: a place without details is skipped
scrape_places_extract_skips_bare ==
    /\ pc = "sc_extract"
    /\ LET extracted_data == extract_place_data(places[idx], place_details)
           appended == IF place_details = None THEN results
                       ELSE Append(results, extracted_data)
       IN  /\ results' = appended
           /\ IF idx < Len(places)
              THEN /\ idx' = idx + 1
                   /\ pc' = "sc_item"
                   /\ UNCHANGED ret
              ELSE /\ ret' = appended
                   /\ pc' = "sc_ret"
                   /\ UNCHANGED idx
    /\ UNCHANGED <<api_key, radius, fetch_details, places, next_page_token,
                   place_details, export_results, outcome, stdout, events,
                   answers, details, caller,
                   formats, fmt_i, export_arg, place_type, location_text>>

\* lines 147-151: the record is normalized and appended; next item or return
scrape_places_extract ==
    /\ pc = "sc_extract"
    /\ LET extracted_data == extract_place_data(places[idx], place_details)
           appended == Append(results, extracted_data)
       IN  /\ results' = appended
           /\ IF idx < Len(places)
              THEN /\ idx' = idx + 1
                   /\ pc' = "sc_item"
                   /\ UNCHANGED ret
              ELSE /\ ret' = appended
                   /\ pc' = "sc_ret"
                   /\ UNCHANGED idx
    /\ UNCHANGED <<api_key, radius, fetch_details, places, next_page_token,
                   place_details, export_results, outcome, stdout, events,
                   answers, details, caller,
                   formats, fmt_i, export_arg, place_type, location_text>>

-----------------------------------------------------------------------------
(* A caller of the library: scraper = GooglePlacesScraper(key), then        *)
(* scraper.scrape_places(place_type, location, fetch_details, radius)       *)

Radii == {DEFAULT_RADIUS, DEFAULT_RADIUS + 1}

Keys == {Some("KEY")}

Init ==
    /\ pc = "idle"
    /\ caller = "library"
    /\ api_key \in Keys
    /\ radius = DEFAULT_RADIUS
    /\ fetch_details = DEFAULT_FETCH_DETAILS
    /\ places = << >>
    /\ next_page_token = None
    /\ idx = 0
    /\ place_details = None
    /\ results = << >>
    /\ ret = << >>
    /\ export_results = EmptyDict
    /\ outcome = "running"
    /\ stdout = << >>
    /\ events = << >>
    /\ answers = << >>
    /\ details = << >>
    /\ formats = << >>
    /\ fmt_i = 0
    /\ export_arg = << >>
    /\ place_type = DEFAULT_PLACE_TYPE
    /\ location_text = DEFAULT_LOCATION

scrape_places_call ==
    /\ pc = "idle"
    /\ \E r \in Radii, fd \in BOOLEAN : scrape_places_enter(r, fd)
    /\ UNCHANGED <<api_key, idx, place_details, results, ret, export_results,
                   outcome, events, caller,
                   formats, fmt_i, export_arg, place_type, location_text>>

Pipeline ==
    \/ search_places_loop
    \/ search_places_sleep
    \/ search_places_get
    \/ search_places_response
    \/ search_places_return
    \/ scrape_places_item
    \/ get_place_details_get
    \/ get_place_details_response
    \/ scrape_places_sleep
    \/ scrape_places_extract

Next ==
    \/ scrape_places_call
    \/ Pipeline

Spec == Init /\ [][Next]_vars

\* the thread keeps running: a pause ends, and a request sent is answered
\* by the provider or fails
SpecLive == Init /\ [][Next]_vars /\ WF_vars(Next)

-----------------------------------------------------------------------------
(* A caller of the library invoking scrape_places on a scraper that has     *)
(* served an invocation before: what that invocation left behind is still   *)
(* there, and nothing has been recorded of the new one                      *)

\* the records an earlier invocation may have returned
EarlierResults ==
    {<< >>} \cup {<<extract_place_data(b, None)>> : b \in {x \in BasicPool : x["place_id"] = "p1"}}

InitAgain ==
    /\ pc = "idle"
    /\ caller = "library"
    /\ api_key \in Keys
    /\ radius = DEFAULT_RADIUS
    /\ fetch_details = DEFAULT_FETCH_DETAILS
    /\ \E rs \in EarlierResults :
         /\ results = rs
         /\ ret = rs
         /\ idx = Len(rs)
    /\ places = << >>
    /\ next_page_token = None
    /\ place_details = None
    /\ export_results = EmptyDict
    /\ outcome = "running"
    /\ stdout = << >>
    /\ events = << >>
    /\ answers = << >>
    /\ details = << >>
    /\ formats = << >>
    /\ fmt_i = 0
    /\ export_arg = << >>
    /\ place_type = DEFAULT_PLACE_TYPE
    /\ location_text = DEFAULT_LOCATION

SpecAgain == InitAgain /\ [][Next]_vars

-----------------------------------------------------------------------------
(* validate_api_key, src/src/utils.py:9-48 *)

ValidateResponses ==
    { Json([status |-> st]) : st \in {"OK", "ZERO_RESULTS"} \cup ErrorStatuses }
      \cup { Json(EmptyDict), Failure("conn_error"), Failure("bad_json") }

\* line 30 of places_scraper.py: validate_api_key returned False
main_validation_failed ==
    /\ outcome' = "validation_failed"
    /\ pc' = "exit"

\* lines 19-31: the guard, then the probe request is sent
validate_api_key_get ==
    /\ pc = "va_get"
    /\ IF ~StrTruthy(api_key)
       THEN /\ stdout' = Echo("Error: No API key provided")
            /\ main_validation_failed
            /\ UNCHANGED events
       ELSE /\ events' = Append(events,
                   ValidateRequest([key |-> api_key, radius |-> VALIDATE_RADIUS]))
            /\ pc' = "va_resp"
            /\ UNCHANGED <<stdout, outcome>>
    /\ UNCHANGED <<api_key, radius, fetch_details, places, next_page_token, idx,
                   place_details, results, ret, export_results, answers,
                   details, caller,
                   formats, fmt_i, export_arg, place_type, location_text>>

\* lines 31-34: the exception the try body raises on an answer, if any
validate_api_key_try(resp) ==
    IF resp.kind = "conn_error" THEN "RequestException"
    ELSE IF resp.kind = "bad_json" THEN "ValueError"
    ELSE IF "status" \notin DOMAIN resp.data THEN "KeyError"
    ELSE "none"

\* lines 46-48: the except clause
validate_api_key_catches(exc) == IsException(exc)

\* lines 34-44: the verdict on a status
validate_api_key_status(st) ==
    IF st = "REQUEST_DENIED"
    THEN [value |-> FALSE, message |-> <<"API key validation failed: Invalid or restricted key">>]
    ELSE IF st = "OVER_QUERY_LIMIT"
    THEN [value |-> FALSE, message |-> <<"API key validation failed: Quota exceeded">>]
    ELSE IF st \in {"OK", "ZERO_RESULTS"}
    THEN [value |-> TRUE, message |-> << >>]
    ELSE [value |-> TRUE, message |-> <<"API key validation uncertain">>]

\* lines 31-48, and lines 29-31 of places_scraper.py
validate_api_key_response ==
    /\ pc = "va_resp"
    /\ \E resp \in ValidateResponses :
         LET exc == validate_api_key_try(resp)
         IN  IF exc # "none"
             THEN IF validate_api_key_catches(exc)
                  THEN /\ stdout' = Echo("Error validating API key")
                       /\ main_validation_failed
                  ELSE uncaught(exc)
             ELSE LET v == validate_api_key_status(resp.data["status"])
                  IN  IF v.value
                      THEN /\ stdout' = stdout \o v.message
                                          \o <<"API key validated successfully!">>
                           /\ pc' = "m_scrape"
                           /\ UNCHANGED outcome
                      ELSE /\ stdout' = stdout \o v.message
                           /\ main_validation_failed
    /\ UNCHANGED <<api_key, radius, fetch_details, places, next_page_token, idx,
                   place_details, results, ret, export_results, events, answers,
                   details, caller,
                   formats, fmt_i, export_arg, place_type, location_text>>

-----------------------------------------------------------------------------
(* export_data and save_to_json / save_to_csv, src/src/data_processor.py *)

\* lines 99-101 and 126-128: the except clauses of save_to_json / save_to_csv
save_catches(exc) == IsException(exc)

\* results[fmt] = value
DictSet(d, k, v) ==
    [x \in DOMAIN d \cup {k} |-> IF x = k THEN v ELSE d[x]]

\* lines 149-158: where the for loop of export_data goes for formats[i];
\* after the last format export_data returns to its caller
export_data_pc(fs, i) ==
    IF i > Len(fs) THEN (IF caller = "main" THEN "m_report" ELSE "ex_ret")
    ELSE IF fs[i] = "json" THEN "ex_json"
    ELSE IF fs[i] = "csv" THEN "ex_csv"
    ELSE "ex_other"

\* lines 144-149: the call; fmts is None or a list of formats
export_data_enter(d, fmts) ==
    LET fs == IF fmts = None THEN <<"json", "csv">> ELSE fmts[1]
    IN  /\ export_arg' = d
        /\ formats' = fs
        /\ fmt_i' = 1
        /\ export_results' = EmptyDict
        /\ pc' = export_data_pc(fs, 1)

\* variant: a format that fails ends the export
export_data_next_stops_on_failure ==
    /\ fmt_i' = fmt_i + 1
    /\ pc' = IF export_results'[formats[fmt_i]]
             THEN export_data_pc(formats, fmt_i + 1)
             ELSE export_data_pc(formats, Len(formats) + 1)

\* next iteration of the for loop
export_data_next ==
    /\ fmt_i' = fmt_i + 1
    /\ pc' = export_data_pc(formats, fmt_i + 1)

\* lines 94-101 and 149-152: the JSON file is written, or the write fails
save_to_json ==
    /\ pc = "ex_json"
    /\ \E ok \in BOOLEAN :
         /\ events' = Append(events, FileWrite("json", ok))
         /\ stdout' = Echo(IF ok THEN "Data saved to" ELSE "Error saving to JSON")
         /\ export_results' = DictSet(export_results, "json", ok)
    /\ export_data_next
    /\ UNCHANGED <<api_key, radius, fetch_details, places, next_page_token, idx,
                   place_details, results, ret, outcome, answers, details, caller,
                   formats, export_arg, place_type, location_text>>

\* lines 115-128 and 153-155: the CSV file is written, or the write fails
save_to_csv ==
    /\ pc = "ex_csv"
    /\ IF export_arg = << >>
       THEN /\ stdout' = Echo("No data to save")
            /\ export_results' = DictSet(export_results, "csv", FALSE)
            /\ UNCHANGED events
       ELSE \E ok \in BOOLEAN :
              /\ events' = Append(events, FileWrite("csv", ok))
              /\ stdout' = Echo(IF ok THEN "Data saved to" ELSE "Error saving to CSV")
              /\ export_results' = DictSet(export_results, "csv", ok)
    /\ export_data_next
    /\ UNCHANGED <<api_key, radius, fetch_details, places, next_page_token, idx,
                   place_details, results, ret, outcome, answers, details, caller,
                   formats, export_arg, place_type, location_text>>

\* lines 156-158: an unsupported format
export_data_unsupported ==
    /\ pc = "ex_other"
    /\ stdout' = Echo("Unsupported format")
    /\ export_results' = DictSet(export_results, formats[fmt_i], FALSE)
    /\ export_data_next
    /\ UNCHANGED <<api_key, radius, fetch_details, places, next_page_token, idx,
                   place_details, results, ret, outcome, events, answers, details,
                   caller, formats, export_arg, place_type, location_text>>

-----------------------------------------------------------------------------
(* main, src/places_scraper.py:18-63 *)

\* GOOGLE_MAPS_API_KEY = os.getenv(...): unset, empty or set
EnvKeys == {None, Some(""), Some("KEY")}

InitMain ==
    /\ pc = "m_start"
    /\ caller = "main"
    /\ api_key \in EnvKeys
    /\ radius = DEFAULT_RADIUS
    /\ fetch_details = DEFAULT_FETCH_DETAILS
    /\ places = << >>
    /\ next_page_token = None
    /\ idx = 0
    /\ place_details = None
    /\ results = << >>
    /\ ret = << >>
    /\ export_results = EmptyDict
    /\ outcome = "running"
    /\ stdout = << >>
    /\ events = << >>
    /\ answers = << >>
    /\ details = << >>
    /\ formats = << >>
    /\ fmt_i = 0
    /\ export_arg = << >>
    /\ place_type = DEFAULT_PLACE_TYPE
    /\ location_text = DEFAULT_LOCATION

\* lines 21-28
main_check_key ==
    /\ pc = "m_start"
    /\ IF ~StrTruthy(api_key)
       THEN /\ stdout' = stdout \o <<"Error: GOOGLE_MAPS_API_KEY not found",
                                     "Please create a .env file">>
            /\ outcome' = "no_key"
            /\ pc' = "exit"
       ELSE /\ stdout' = Echo("Validating API key...")
            /\ pc' = "va_get"
            /\ UNCHANGED outcome
    /\ UNCHANGED <<api_key, radius, fetch_details, places, next_page_token, idx,
                   place_details, results, ret, export_results, events, answers,
                   details, caller,
                   formats, fmt_i, export_arg, place_type, location_text>>

\* lines 34-44
main_scrape_call ==
    /\ pc = "m_scrape"
    /\ scrape_places_enter(DEFAULT_RADIUS, DEFAULT_FETCH_DETAILS)
    /\ UNCHANGED <<api_key, idx, place_details, results, ret, export_results,
                   outcome, events, caller,
                   formats, fmt_i, export_arg, place_type, location_text>>

\* lines 44-48 and 57-58: scrape_places has returned
main_results ==
    /\ pc = "sc_ret"
    /\ caller = "main"
    /\ IF ret # << >>
       THEN /\ export_data_enter(ret, None)
            /\ UNCHANGED <<stdout, outcome>>
       ELSE /\ stdout' = Echo("No results found.")
            /\ outcome' = "no_results"
            /\ pc' = "exit"
            /\ UNCHANGED <<export_results, formats, fmt_i, export_arg>>
    /\ UNCHANGED <<api_key, radius, fetch_details, places, next_page_token, idx,
                   place_details, results, ret, events, answers, details, caller,
                   place_type, location_text>>

\* lines 50-56
main_report ==
    /\ pc = "m_report"
    /\ stdout' = stdout \o <<"Scraping completed successfully!", "Found">>
                        \o [i \in 1..2 |->
                              IF export_results[<<"json", "csv">>[i]]
                              THEN "export successful" ELSE "export failed"]
    /\ outcome' = "success"
    /\ pc' = "exit"
    /\ UNCHANGED <<api_key, radius, fetch_details, places, next_page_token, idx,
                   place_details, results, ret, export_results, events, answers,
                   details, caller,
                   formats, fmt_i, export_arg, place_type, location_text>>

\* the user presses Ctrl-C: KeyboardInterrupt is raised in the statement
\* being executed and unwinds through the frames that enclose it
Interrupted == [type |-> "interrupt", at |-> pc]

KeyboardInterrupt ==
    /\ pc # "exit"
    /\ events' = Append(events, Interrupted)
    /\ LET exc == "KeyboardInterrupt"
       IN  IF pc \in {"m_start", "m_scrape"} THEN
               \* places_scraper.py:21-40, outside the try block
               /\ uncaught(exc)
               /\ UNCHANGED <<places, next_page_token, place_details, details,
                              export_results, fmt_i>>
           ELSE IF pc \in {"va_get", "va_resp"} THEN
               \* inside validate_api_key, called outside main's try block
               /\ IF validate_api_key_catches(exc)
                  THEN /\ stdout' = Echo("Error validating API key")
                       /\ main_validation_failed
                  ELSE uncaught(exc)
               /\ UNCHANGED <<places, next_page_token, place_details, details,
                              export_results, fmt_i>>
           ELSE IF pc \in {"sp_get", "sp_resp"} THEN
               \* inside the try block of search_places
               /\ IF search_places_catches(exc)
                  THEN search_places_except(exc)
                  ELSE scrape_places_raise(exc) /\ UNCHANGED <<places, next_page_token>>
               /\ UNCHANGED <<place_details, details, export_results, fmt_i>>
           ELSE IF pc \in {"gd_get", "gd_resp"} THEN
               \* inside the try block of get_place_details
               /\ IF get_place_details_catches(exc)
                  THEN /\ place_details' = None
                       /\ details' = Append(details, [resp |-> Failure(exc), value |-> None])
                       /\ stdout' = Echo("Error getting place details")
                       /\ pc' = "sc_sleep"
                       /\ UNCHANGED outcome
                  ELSE scrape_places_raise(exc) /\ UNCHANGED <<place_details, details>>
               /\ UNCHANGED <<places, next_page_token, export_results, fmt_i>>
           ELSE IF pc \in {"ex_json", "ex_csv"} THEN
               \* inside the try block of save_to_json / save_to_csv
               /\ IF save_catches(exc)
                  THEN /\ export_results' = DictSet(export_results, formats[fmt_i], FALSE)
                       /\ stdout' = Echo(IF pc = "ex_json" THEN "Error saving to JSON"
                                         ELSE "Error saving to CSV")
                       /\ export_data_next
                       /\ UNCHANGED outcome
                  ELSE scrape_places_raise(exc) /\ UNCHANGED <<export_results, fmt_i>>
               /\ UNCHANGED <<places, next_page_token, place_details, details>>
           ELSE
               \* elsewhere in search_places, scrape_places or main's try block
               /\ scrape_places_raise(exc)
               /\ UNCHANGED <<places, next_page_token, place_details, details,
                              export_results, fmt_i>>
    /\ UNCHANGED <<api_key, radius, fetch_details, idx, results, ret, answers,
                   caller, formats, export_arg, place_type, location_text>>

NextMain ==
    \/ main_check_key
    \/ validate_api_key_get
    \/ validate_api_key_response
    \/ main_scrape_call
    \/ Pipeline
    \/ main_results
    \/ save_to_json
    \/ save_to_csv
    \/ main_report
    \/ KeyboardInterrupt

SpecMain == InitMain /\ [][NextMain]_vars

-----------------------------------------------------------------------------
(* Properties *)

IsSearchRequest(e) == e.type = "search"

IsDetailRequest(e) == e.type = "details"

IsPageDelay(e) == e.type = "sleep" /\ e.delay = "PAGINATION_DELAY"

SearchRequests == SelectSeq(events, IsSearchRequest)

DetailRequests == SelectSeq(events, IsDetailRequest)

PageDelays == SelectSeq(events, IsPageDelay)

HasStatus(a, st) ==
    a.kind = "json" /\ "status" \in DOMAIN a.data /\ a.data["status"] = st

\* the answer is a page of results
IsPage(a) == HasStatus(a, "OK")

\* the page carries a continuation token
HasToken(a) ==
    "next_page_token" \in DOMAIN a.data /\ a.data["next_page_token"] # ""

\* a provider status other than OK and ZERO_RESULTS, or a transport failure
IsRejected(a) ==
    \/ a.kind # "json"
    \/ "status" \in DOMAIN a.data /\ a.data["status"] \notin {"OK", "ZERO_RESULTS"}

PageOf(a) ==
    IF IsPage(a) /\ "results" \in DOMAIN a.data THEN a.data["results"] ELSE << >>

RECURSIVE Concat(_)
Concat(as) == IF as = << >> THEN << >> ELSE PageOf(Head(as)) \o Concat(Tail(as))

AllButLast(sq) == SubSeq(sq, 1, Len(sq) - 1)

SearchPcs == {"sp_top", "sp_sleep", "sp_get", "sp_resp"}

\* C1: when scrape_places returns, it returns one record per BasicResult that
\* search_places returned, the i-th record being the normalization of the
\* i-th BasicResult (same identifier) with the detail fetched for it, if any.
C1_OneRecordPerResultInOrder ==
    pc = "sc_ret" =>
      /\ Len(ret) = Len(places)
      /\ \A i \in 1..Len(ret) :
           /\ ret[i].place_id = places[i]["place_id"]
           /\ ret[i] = extract_place_data(places[i],
                          IF fetch_details THEN details[i].value ELSE None)

C1_Witness ==
    /\ pc = "sc_ret"
    /\ fetch_details
    /\ Len(ret) = 2
    /\ ret[1].place_id # ret[2].place_id
    /\ details[1].value = None
    /\ details[2].value # None

\* C2: with fetch_details set, a failed detail lookup for item i (non-OK
\* status or transport failure) does not abort the pipeline: record i is
\* normalize(basic_i, absent) and every item gets its lookup and its record.
C2_FailedDetailDegradesRecord ==
    /\ pc # "raised"
    /\ \A i \in 1..Len(details) :
         (IsRejected(details[i].resp) /\ i <= Len(results))
            => results[i] = extract_place_data(places[i], None)
    /\ (pc = "sc_ret" /\ fetch_details /\ places # << >>)
         => /\ Len(details) = Len(places)
            /\ Len(ret) = Len(places)

C2_Witness ==
    /\ pc = "sc_ret"
    /\ fetch_details
    /\ Len(ret) = 2
    /\ details[1].resp.kind = "conn_error"
    /\ details[2].resp = Json([status |-> "NOT_FOUND"])

\* C3: when the provider answers k requests with OK, with a token on pages
\* 1..k-1 and none on page k, search_places issues exactly k requests, the
\* first without a token, each later one with the token of the preceding
\* answer, and returns the pages' results concatenated in page order.
C3_PagesConcatenatedInOrder ==
    LET k == Len(answers)
        reqs == SearchRequests
    IN  ( /\ pc = "sp_ret"
          /\ k >= 1
          /\ \A j \in 1..k : IsPage(answers[j])
          /\ \A j \in 1..(k - 1) : HasToken(answers[j])
          /\ ~HasToken(answers[k]) )
        => /\ Len(reqs) = k
           /\ "pagetoken" \notin DOMAIN reqs[1].params
           /\ \A j \in 2..k :
                /\ "pagetoken" \in DOMAIN reqs[j].params
                /\ reqs[j].params["pagetoken"] = answers[j - 1].data["next_page_token"]
           /\ places = Concat(answers)

C3_Witness ==
    /\ pc = "sp_ret"
    /\ Len(answers) = 2
    /\ IsPage(answers[1]) /\ HasToken(answers[1])
    /\ IsPage(answers[2]) /\ ~HasToken(answers[2])
    /\ PageOf(answers[1]) # << >>
    /\ PageOf(answers[2]) # << >>
    /\ PageOf(answers[1]) # PageOf(answers[2])
    /\ places = PageOf(answers[1]) \o PageOf(answers[2])

\* C4: search requests and inter-page delays alternate, starting with a
\* request; the j-th delay comes after the j-th answer (whose token it waits
\* for); so a search of k requests observes exactly k-1 delays.
IsSearchStep(e) == IsSearchRequest(e) \/ IsPageDelay(e)

SearchSteps == SelectSeq(events, IsSearchStep)

C4_OneDelayBeforeEachTokenRequest ==
    /\ \A i \in 1..Len(SearchSteps) :
         IF i % 2 = 1 THEN IsSearchRequest(SearchSteps[i])
         ELSE IsPageDelay(SearchSteps[i])
    /\ Len(PageDelays) <= Len(answers)
    /\ \A j \in 1..Len(PageDelays) : IsPage(answers[j]) /\ HasToken(answers[j])
    /\ \A j \in 1..Len(SearchRequests) :
         ("pagetoken" \in DOMAIN SearchRequests[j].params) <=> j > 1
    /\ pc \notin (SearchPcs \cup {"idle"})
         => Len(PageDelays) = Len(SearchRequests) - 1

C4_Witness ==
    /\ pc = "sp_ret"
    /\ Len(SearchRequests) = 2
    /\ Len(PageDelays) = 1

\* C5: once the provider has answered ZERO_RESULTS the search is over without
\* an error: no further request is issued and search_places returns what it
\* had accumulated before that answer (nothing, when it is the first answer).
C5_ZeroResultsEndsSearch ==
    (answers # << >> /\ HasStatus(answers[Len(answers)], "ZERO_RESULTS"))
      => /\ pc \notin (SearchPcs \cup {"raised"})
         /\ Len(SearchRequests) = Len(answers)
         /\ places = Concat(AllButLast(answers))
         /\ (Len(answers) = 1 => places = << >>)

C5_Witness ==
    /\ pc = "sp_ret"
    /\ Len(answers) = 2
    /\ HasStatus(answers[2], "ZERO_RESULTS")
    /\ places # << >>

\* C6: once a page request has ended in a status other than OK and
\* ZERO_RESULTS or in a transport failure, search_places issues no further
\* request, raises nothing, and returns the results of the pages before it.
C6_RejectedPageTruncatesSearch ==
    (answers # << >> /\ IsRejected(answers[Len(answers)]))
      => /\ pc \notin (SearchPcs \cup {"raised"})
         /\ Len(SearchRequests) = Len(answers)
         /\ places = Concat(AllButLast(answers))

C6_Witness ==
    /\ pc = "sc_ret"
    /\ Len(answers) = 2
    /\ HasStatus(answers[2], "OVER_QUERY_LIMIT")
    /\ Len(ret) = 1

\* C7: every search request carries a radius no greater than the provider
\* maximum, whatever radius the caller passes.
C7_RadiusWithinProviderMaximum ==
    \A i \in 1..Len(SearchRequests) :
        SearchRequests[i].params["radius"] <= PROVIDER_MAX_RADIUS

\* C8: get_place_details raises nothing: each lookup returns the provider's
\* result object when the answer has status OK, and None on a non-OK status,
\* a transport failure or a malformed answer; scrape_places receives it.
C8_DetailsResultOrNone ==
    /\ pc # "raised"
    /\ \A i \in 1..Len(details) :
         LET r == details[i].resp
         IN  details[i].value =
                IF HasStatus(r, "OK") /\ "result" \in DOMAIN r.data
                THEN Some(r.data["result"]) ELSE None
    /\ Len(details) = Len(DetailRequests) - (IF pc = "gd_resp" THEN 1 ELSE 0)
    /\ pc = "sc_sleep" => place_details = details[Len(details)].value

C8_Witness ==
    /\ pc = "sc_ret"
    /\ Len(details) = 2
    /\ details[1].resp = Json(EmptyDict)
    /\ details[1].value = None
    /\ HasStatus(details[2].resp, "OK")
    /\ details[2].value # None
    /\ DictTruthy(details[2].value[1])

\* C9: an interruption during key validation, a page fetch, the inter-page
\* wait, a detail fetch or the pacing wait ends the run at once in the
\* "interrupted" outcome: nothing is requested or written after it.
InterruptSteps == {"va_resp", "sp_resp", "sp_sleep", "gd_resp", "sc_sleep"}

C9_InterruptEndsRunInterrupted ==
    \A i \in 1..Len(events) :
        (events[i].type = "interrupt" /\ events[i].at \in InterruptSteps)
          => /\ i = Len(events)
             /\ pc = "exit"
             /\ outcome = "interrupted"

\* C10: in a run of main with an empty or missing API key, no search request,
\* no detail request and no file write ever happens.
C10_NoKeyNoPipeline ==
    api_key \in {None, Some("")}
      => \A i \in 1..Len(events) :
             events[i].type \notin {"search", "details", "write"}

C10_Witness ==
    /\ api_key = Some("")
    /\ pc = "exit"
    /\ outcome = "no_key"
    /\ events = << >>

\* C11: a run whose first search request was rejected by the provider or
\* failed in transport is never reported to the user as "no results".
C11_FailedSearchNotReportedAsNoResults ==
    (answers # << >> /\ IsRejected(answers[1])) => outcome # "no_results"


-----------------------------------------------------------------------------
(* A library caller invoking export_data(data, place_type, location,       *)
(* formats), src/src/data_processor.py:131-160                             *)

MaxTextLen == 2

TextAlphabet == {"a", "B", "7", " ", ",", "/", "_", "-", ".", "a_tilde", "I_dot"}

RECURSIVE Texts(_)
Texts(n) ==
    IF n = 0 THEN {<< >>}
    ELSE LET shorter == Texts(n - 1)
         IN  shorter \cup {Append(t, c) : t \in {x \in shorter : Len(x) = n - 1},
                                          c \in TextAlphabet}

\* "gas station"
GasStation == <<"g", "a", "s", " ", "s", "t", "a", "t", "i", "o", "n">>

\* "Sao Paulo, BR" with a tilde on the first a
SaoPaulo == <<"S", "a_tilde", "o", " ", "P", "a", "u", "l", "o", ",", " ", "B", "R">>

TextInputs ==
    Texts(MaxTextLen) \cup {GasStation, SaoPaulo, DEFAULT_PLACE_TYPE, DEFAULT_LOCATION}

\* the (place_type, location) pairs tried: one of the two varies freely
TextPairs ==
    {<<t, DEFAULT_LOCATION>> : t \in TextInputs}
        \cup {<<DEFAULT_PLACE_TYPE, t>> : t \in TextInputs}
        \cup {<<GasStation, SaoPaulo>>}

ExportFormats == {"json", "csv", "xml"}

\* the formats argument: None, or a list naming each format at most once
FormatInputs ==
    {None} \cup
    {Some(f) : f \in {g \in UNION {[1..n -> ExportFormats] : n \in 0..Cardinality(ExportFormats)} :
                        \A i, j \in DOMAIN g : i # j => g[i] # g[j]}}

\* the data argument: no record, or one record
DataInputs ==
    {<< >>} \cup {<<extract_place_data(b, None)>> : b \in {x \in BasicPool : x["place_id"] = "p1"}}

InitExport ==
    /\ pc = "ex_idle"
    /\ caller = "library"
    /\ api_key \in Keys
    /\ radius = DEFAULT_RADIUS
    /\ fetch_details = DEFAULT_FETCH_DETAILS
    /\ places = << >>
    /\ next_page_token = None
    /\ idx = 0
    /\ place_details = None
    /\ results = << >>
    /\ ret = << >>
    /\ export_results = EmptyDict
    /\ outcome = "running"
    /\ stdout = << >>
    /\ events = << >>
    /\ answers = << >>
    /\ details = << >>
    /\ formats = << >>
    /\ fmt_i = 0
    /\ export_arg = << >>
    /\ place_type = DEFAULT_PLACE_TYPE
    /\ location_text = DEFAULT_LOCATION

export_data_call ==
    /\ pc = "ex_idle"
    /\ \E d \in DataInputs, fmts \in FormatInputs : export_data_enter(d, fmts)
    /\ UNCHANGED <<api_key, radius, fetch_details, places, next_page_token, idx,
                   place_details, results, ret, outcome, stdout, events, answers,
                   details, caller, place_type, location_text>>

NextExport ==
    \/ export_data_call
    \/ save_to_json
    \/ save_to_csv
    \/ export_data_unsupported

SpecExport == InitExport /\ [][NextExport]_vars

-----------------------------------------------------------------------------
(* A library caller invoking export_data with the default formats for any   *)
(* place type and location: the names of the files written,                 *)
(* src/src/data_processor.py:64-80, 94 and 115                              *)

InitFilename ==
    /\ pc = "ex_idle"
    /\ caller = "library"
    /\ api_key \in Keys
    /\ radius = DEFAULT_RADIUS
    /\ fetch_details = DEFAULT_FETCH_DETAILS
    /\ places = << >>
    /\ next_page_token = None
    /\ idx = 0
    /\ place_details = None
    /\ results = << >>
    /\ ret = << >>
    /\ export_results = EmptyDict
    /\ outcome = "running"
    /\ stdout = << >>
    /\ events = << >>
    /\ answers = << >>
    /\ details = << >>
    /\ formats = << >>
    /\ fmt_i = 0
    /\ export_arg = << >>
    /\ \E tp \in TextPairs : place_type = tp[1] /\ location_text = tp[2]

export_data_call_default ==
    /\ pc = "ex_idle"
    /\ \E d \in DataInputs \ {<< >>} : export_data_enter(d, None)
    /\ UNCHANGED <<api_key, radius, fetch_details, places, next_page_token, idx,
                   place_details, results, ret, outcome, stdout, events, answers,
                   details, caller, place_type, location_text>>

NextFilename ==
    \/ export_data_call_default
    \/ save_to_json
    \/ save_to_csv

SpecFilename == InitFilename /\ [][NextFilename]_vars

-----------------------------------------------------------------------------
(* Properties of export_data and of the file names *)

IsWrite(e) == e.type = "write"

\* a file of format f was written successfully
WroteOk(f) ==
    \E i \in 1..Len(events) :
        IsWrite(events[i]) /\ events[i].format = f /\ events[i].ok

\* a write of format f was tried
WriteTried(f) ==
    \E i \in 1..Len(events) : IsWrite(events[i]) /\ events[i].format = f

\* C12: when export_data returns, the status map has exactly one entry per
\* requested format, the entry is true exactly when the write of that format
\* succeeded, an unsupported format maps to false, every supported format was
\* tried whatever happened to the formats before it, and no exception left
\* export_data.
C12_ExportStatusPerFormat ==
    /\ pc # "raised"
    /\ pc = "ex_ret" =>
         /\ DOMAIN export_results = Range(formats)
         /\ \A f \in Range(formats) :
              /\ export_results[f] = WroteOk(f)
              /\ f \notin {"json", "csv"} => ~export_results[f]
              /\ (f \in {"json", "csv"} /\ export_arg # << >>) => WriteTried(f)

\* export_data returned with the first format failed, an unsupported format
\* in the middle and the last format written
C12_Witness ==
    /\ pc = "ex_ret"
    /\ formats = <<"json", "xml", "csv">>
    /\ export_results["json"] = FALSE
    /\ export_results["xml"] = FALSE
    /\ export_results["csv"] = TRUE

\* the characters the file-name tokens are claimed to be made of
SafeAscii == Range(LowerLetters) \cup Digits \cup {"_", "-"}

NonAscii == {"a_tilde", "e_acute", "E_acute", "I_dot", "dot_above", "sup2"}

IsAscii(text) == Range(text) \cap NonAscii = {}

\* the lowercase forms of the alphanumeric characters of text
LowerForms(text) ==
    UNION {Range(lower_char(c)) : c \in {x \in Range(text) : isalnum(x)}}

\* the part of a file name before "_<timestamp>.<extension>": the sanitized
\* place type, an underscore and the sanitized location
Stem(e) ==
    SubSeq(e.filename, 1,
           Len(e.filename) - (Len(Timestamp) + Len(Extension(e.format)) + 2))

WriteEvents == {i \in 1..Len(events) : IsWrite(events[i])}

\* "gas_station_so_paulo_br"
StemAsciiOnly ==
    <<"g", "a", "s", "_", "s", "t", "a", "t", "i", "o", "n", "_",
      "s", "o", "_", "p", "a", "u", "l", "o", "_", "b", "r">>

\* "gas_station_sao_paulo__br", the a of sao with its tilde
StemOfCode ==
    <<"g", "a", "s", "_", "s", "t", "a", "t", "i", "o", "n", "_",
      "s", "a_tilde", "o", "_", "p", "a", "u", "l", "o", "_", "_", "b", "r">>

\* C17 as stated: the sanitized tokens of every file written contain only
\* a-z, 0-9, '_' and '-', and "gas station" / "Sao Paulo, BR" (with tilde)
\* give "gas_station" and "so_paulo_br".
C17_SanitizedOnlyAsciiLowerAlnum ==
    \A i \in WriteEvents :
        /\ Range(Stem(events[i])) \subseteq SafeAscii
        /\ (place_type = GasStation /\ location_text = SaoPaulo)
               => Stem(events[i]) = StemAsciiOnly

\* C17 amended: every character of the sanitized tokens is '_', '-' or comes
\* from lower-casing an alphanumeric character of the input, non-ASCII
\* letters included; none is a space, comma, slash or dot; ASCII-only inputs
\* give only a-z, 0-9, '_' and '-'; and "gas station" / "Sao Paulo, BR"
\* (with tilde) give "gas_station" and "sao_paulo__br" (tilde kept, one
\* underscore per replaced character).
C17_SanitizedLowerAlnumOfInput ==
    \A i \in WriteEvents :
        LET stem == Stem(events[i])
        IN  /\ Range(stem) \subseteq
                   {"_", "-"} \cup LowerForms(place_type) \cup LowerForms(location_text)
            /\ Range(stem) \cap ({" ", ",", "/", "."} \cup Range(UpperLetters)) = {}
            /\ (IsAscii(place_type) /\ IsAscii(location_text))
                   => Range(stem) \subseteq SafeAscii
            /\ (place_type = GasStation /\ location_text = SaoPaulo)
                   => stem = StemOfCode

\* a file was written for "gas station" in "Sao Paulo, BR"
C17_Witness ==
    /\ place_type = GasStation
    /\ location_text = SaoPaulo
    /\ \E i \in WriteEvents : events[i].ok /\ Stem(events[i]) = StemOfCode

-----------------------------------------------------------------------------
(* A library caller invoking extract_place_data(place_basic, place_details), *)
(* src/src/data_processor.py:13-61                                           *)

MaxPhoneLen == 3

PhoneAlphabet == {"+", "(", ")", " ", "-", "5"}

RECURSIVE Phones(_)
Phones(n) ==
    IF n = 0 THEN {<< >>}
    ELSE LET shorter == Phones(n - 1)
         IN  shorter \cup {Append(t, c) : t \in {x \in shorter : Len(x) = n - 1},
                                          c \in PhoneAlphabet}

\* "+1 (555) 123-4567"
PhoneInternational ==
    <<"+", "1", " ", "(", "5", "5", "5", ")", " ", "1", "2", "3", "-",
      "4", "5", "6", "7">>

\* "(555) 123-4567"
PhoneNational ==
    <<"(", "5", "5", "5", ")", " ", "1", "2", "3", "-", "4", "5", "6", "7">>

PhoneInputs == Phones(MaxPhoneLen) \cup {PhoneInternational, PhoneNational}

Restrict(d, ks) == [k \in ks |-> d[k]]

\* a search result with every scalar field, and one the provider does not
\* document for search results
BasicScalars ==
    [name |-> "Alpha", place_id |-> "p1", formatted_address |-> "1 rue A",
     rating |-> "4.5", user_ratings_total |-> "10", website |-> "alpha.basic.example"]

BasicGeometries ==
    { EmptyDict,
      [geometry |-> [location |-> EmptyDict]],
      [geometry |-> [location |-> [lat |-> "48.1", lng |-> "2.1"]]] }

\* search results holding any subset of the fields
BasicInputs ==
    {Restrict(BasicScalars, ks) @@ g :
        ks \in SUBSET DOMAIN BasicScalars, g \in BasicGeometries}

DetailScalars ==
    [name |-> "Alpha SA", formatted_address |-> "1 rue A, Paris",
     rating |-> "4.7", user_ratings_total |-> "12",
     website |-> "alpha.example", formatted_phone_number |-> <<"(", "5", ")", " ", "5">>]

DetailGeometries ==
    { EmptyDict,
      [geometry |-> [location |-> EmptyDict]],
      [geometry |-> [location |-> [lng |-> "2.2"]]],
      [geometry |-> [location |-> [lat |-> "48.2", lng |-> "2.2"]]] }

\* place_details: None, or a details result holding any subset of the fields
DetailInputs ==
    {None} \cup
    {Some(Restrict(DetailScalars, ks) @@ g) :
        ks \in SUBSET DOMAIN DetailScalars, g \in DetailGeometries}

\* place_details holding nothing but a phone number
PhoneDetailInputs == {Some([formatted_phone_number |-> p]) : p \in PhoneInputs}

\* the (place_basic, place_details) pairs tried
ExtractInputs ==
    (BasicInputs \X DetailInputs)
        \cup ({Restrict(BasicScalars, {"name", "place_id"})} \X PhoneDetailInputs)

InitExtract ==
    /\ pc = "xp_idle"
    /\ caller = "library"
    /\ api_key \in Keys
    /\ radius = DEFAULT_RADIUS
    /\ fetch_details = DEFAULT_FETCH_DETAILS
    /\ \E x \in ExtractInputs : places = <<x[1]>> /\ place_details = x[2]
    /\ next_page_token = None
    /\ idx = 1
    /\ results = << >>
    /\ ret = << >>
    /\ export_results = EmptyDict
    /\ outcome = "running"
    /\ stdout = << >>
    /\ events = << >>
    /\ answers = << >>
    /\ details = << >>
    /\ formats = << >>
    /\ fmt_i = 0
    /\ export_arg = << >>
    /\ place_type = DEFAULT_PLACE_TYPE
    /\ location_text = DEFAULT_LOCATION

\* the call and its return value, kept in results
extract_place_data_call ==
    /\ pc = "xp_idle"
    /\ results' = <<extract_place_data(places[idx], place_details)>>
    /\ pc' = "xp_ret"
    /\ UNCHANGED <<api_key, radius, fetch_details, places, next_page_token, idx,
                   place_details, ret, export_results, outcome, stdout, events,
                   answers, details, caller, formats, fmt_i, export_arg,
                   place_type, location_text>>

NextExtract == extract_place_data_call

SpecExtract == InitExtract /\ [][NextExtract]_vars

-----------------------------------------------------------------------------
(* Properties of extract_place_data and format_phone_number *)

\* extract_place_data has returned
Extracted == pc = "xp_ret"

\* the details given to extract_place_data, an empty dict when there are none
GivenDetails == IF place_details = None THEN EmptyDict ELSE place_details[1]

\* the merged field: the details' value if they have one, else the search
\* result's, else the empty string
Precedence(dkey, bkey) ==
    IF dkey \in DOMAIN GivenDetails THEN GivenDetails[dkey]
    ELSE IF bkey \in DOMAIN places[1] THEN places[1][bkey]
    ELSE ""

\* C13: name, address, rating and rating count of the record are the
\* details' values where details are given and the search result's values
\* otherwise; phone number and website come from the details alone and are
\* empty when there are none, whatever the search result holds.
C13_DetailsOverrideBasic ==
    Extracted =>
        LET out == results[1]
        IN  /\ out.name = Precedence("name", "name")
            /\ out.address = Precedence("formatted_address", "formatted_address")
            /\ out.rating = Precedence("rating", "rating")
            /\ out.user_ratings_total =
                   Precedence("user_ratings_total", "user_ratings_total")
            /\ out.website = Get(GivenDetails, "website", "")
            /\ ("formatted_phone_number" \notin DOMAIN GivenDetails)
                   => out.phone_number = << >>
            /\ ("formatted_phone_number" \in DOMAIN GivenDetails)
                   => /\ Len(out.phone_number) <= Len(GivenDetails["formatted_phone_number"])
                      /\ Range(out.phone_number)
                             \subseteq Range(GivenDetails["formatted_phone_number"])

\* a record whose rating was overridden by the details and whose website is
\* empty although the search result carried one
C13_Witness ==
    /\ Extracted
    /\ "rating" \in DOMAIN places[1]
    /\ "rating" \in DOMAIN GivenDetails
    /\ "website" \in DOMAIN places[1]
    /\ "website" \notin DOMAIN GivenDetails
    /\ results[1].rating = "4.7"
    /\ results[1].website = ""

\* the location of a dict's geometry, an empty dict when it has none
LocationOf(d) == Get(Get(d, "geometry", EmptyDict), "location", EmptyDict)

\* the coordinate of the search result, the empty string when it has none
BasicCoordinate(k) == Get(LocationOf(places[1]), k, "")

\* C14: when the details carry a non-empty geometry location, latitude and
\* longitude of the record are the coordinates that location holds; when no
\* details are given or their location is absent or empty, they are the
\* coordinates of the search result.
C14_DetailLocationOverridesCoordinates ==
    Extracted =>
        LET out == results[1]
            dl == LocationOf(GivenDetails)
        IN  IF dl # EmptyDict
            THEN /\ "lat" \in DOMAIN dl => out.latitude = dl["lat"]
                 /\ "lng" \in DOMAIN dl => out.longitude = dl["lng"]
                 /\ "lat" \notin DOMAIN dl => out.latitude = BasicCoordinate("lat")
                 /\ "lng" \notin DOMAIN dl => out.longitude = BasicCoordinate("lng")
            ELSE /\ out.latitude = BasicCoordinate("lat")
                 /\ out.longitude = BasicCoordinate("lng")

\* a record with the details' coordinates in place of the search result's
C14_Witness ==
    /\ Extracted
    /\ LocationOf(places[1]) = [lat |-> "48.1", lng |-> "2.1"]
    /\ LocationOf(GivenDetails) = [lat |-> "48.2", lng |-> "2.2"]
    /\ results[1].latitude = "48.2"
    /\ results[1].longitude = "2.2"

OutputKeys ==
    {"name", "place_id", "address", "latitude", "longitude", "rating",
     "user_ratings_total", "phone_number", "website"}

\* C15: every record has exactly the nine keys, and a field that neither the
\* search result nor the details hold is the empty string.
C15_NineKeysAlways ==
    Extracted =>
        LET out == results[1]
            b == places[1]
            d == GivenDetails
        IN  /\ DOMAIN out = OutputKeys
            /\ ("name" \notin DOMAIN b \cup DOMAIN d) => out.name = ""
            /\ ("place_id" \notin DOMAIN b) => out.place_id = ""
            /\ ("formatted_address" \notin DOMAIN b \cup DOMAIN d) => out.address = ""
            /\ ("rating" \notin DOMAIN b \cup DOMAIN d) => out.rating = ""
            /\ ("user_ratings_total" \notin DOMAIN b \cup DOMAIN d)
                   => out.user_ratings_total = ""
            /\ ("formatted_phone_number" \notin DOMAIN d) => out.phone_number = << >>
            /\ ("website" \notin DOMAIN d) => out.website = ""
            /\ ("lat" \notin DOMAIN LocationOf(b) \cup DOMAIN LocationOf(d))
                   => out.latitude = ""
            /\ ("lng" \notin DOMAIN LocationOf(b) \cup DOMAIN LocationOf(d))
                   => out.longitude = ""

\* a record made from a search result with no field at all and no details
C15_Witness ==
    /\ Extracted
    /\ DOMAIN places[1] = {}
    /\ place_details = None
    /\ DOMAIN results[1] = OutputKeys
    /\ results[1].name = ""
    /\ results[1].rating = ""

\* the phone number given in the details
GivenPhone == Get(GivenDetails, "formatted_phone_number", << >>)

\* phone without its spaces, hyphens and parentheses
RECURSIVE WithoutSeparators(_)
WithoutSeparators(phone) ==
    IF phone = << >> THEN << >>
    ELSE IF Head(phone) \in {" ", "-", "(", ")"} THEN WithoutSeparators(Tail(phone))
    ELSE <<Head(phone)>> \o WithoutSeparators(Tail(phone))

\* C16: a number that begins with '+' is returned unchanged; any other
\* number is returned without its spaces, hyphens and parentheses, the other
\* characters kept in order; "+1 (555) 123-4567" stays as it is and
\* "(555) 123-4567" becomes "5551234567".
C16_PhoneNumberNormalized ==
    (Extracted /\ GivenPhone # << >>) =>
        LET out == results[1].phone_number
        IN  /\ GivenPhone[1] = "+" => out = GivenPhone
            /\ GivenPhone[1] # "+" => out = WithoutSeparators(GivenPhone)
            /\ GivenPhone = PhoneInternational => out = PhoneInternational
            /\ GivenPhone = PhoneNational
                   => out = <<"5", "5", "5", "1", "2", "3", "4", "5", "6", "7">>

\* "(555) 123-4567" was normalized
C16_Witness ==
    /\ Extracted
    /\ GivenPhone = PhoneNational
    /\ results[1].phone_number = <<"5", "5", "5", "1", "2", "3", "4", "5", "6", "7">>

-----------------------------------------------------------------------------
(* Properties of a whole run of scrape_places *)

IsRequestDelay(e) == e.type = "sleep" /\ e.delay = "REQUEST_DELAY"

RequestDelays == SelectSeq(events, IsRequestDelay)

\* the search requests that start a search: those without a pagetoken
FirstPageRequests ==
    {i \in 1..Len(events) :
        IsSearchRequest(events[i]) /\ "pagetoken" \notin DOMAIN events[i].params}

\* C18: when scrape_places returns, the search was started exactly once, as
\* the first thing done; with fetch_details set there was exactly one detail
\* request per search result, for that result's place_id and in order, and
\* without it none; an empty search result gives the empty list with no
\* detail request and no REQUEST_DELAY pause.
C18_OneSearchAndOneDetailPerResult ==
    pc = "sc_ret" =>
        /\ FirstPageRequests = {1}
        /\ Len(DetailRequests) = (IF fetch_details THEN Len(places) ELSE 0)
        /\ Len(RequestDelays) = Len(DetailRequests)
        /\ \A i \in 1..Len(DetailRequests) :
               DetailRequests[i].params.place_id = places[i]["place_id"]
        /\ places = << >> => (ret = << >> /\ DetailRequests = << >>)

\* a run over two results whose first detail lookup failed and was not
\* tried again
C18_Witness ==
    /\ pc = "sc_ret"
    /\ fetch_details
    /\ Len(places) = 2
    /\ Len(DetailRequests) = 2
    /\ details[1].value = None
    /\ DetailRequests[1].params.place_id # DetailRequests[2].params.place_id

\* the for loop of scrape_places is running
EnrichPcs == {"sc_item", "gd_get", "gd_resp", "sc_sleep", "sc_extract"}

\* the order of what a run does, as far as it has got
C19_PhasesInOrder ==
    \* no search request and no pagination pause after a detail request
    /\ \A i, j \in 1..Len(events) :
           (i < j /\ IsDetailRequest(events[i]))
               => ~IsSearchRequest(events[j]) /\ ~IsPageDelay(events[j])
    \* a REQUEST_DELAY pause between two detail requests
    /\ \A i, j \in 1..Len(events) :
           (i < j /\ IsDetailRequest(events[i]) /\ IsDetailRequest(events[j]))
               => \E k \in (i + 1)..(j - 1) : IsRequestDelay(events[k])
    \* the detail requests follow the order of the search results
    /\ \A n \in 1..Len(DetailRequests) :
           DetailRequests[n].params.place_id = places[n]["place_id"]
    \* the records of the items before the current one, and no other, are there
    /\ pc \in EnrichPcs => Len(results) = idx - 1
    \* detail request n is sent when n - 1 records have been appended
    /\ (fetch_details /\ pc \in {"sc_item", "gd_get"})
           => Len(DetailRequests) = Len(results)
    /\ (fetch_details /\ pc \in {"gd_resp", "sc_sleep", "sc_extract"})
           => Len(DetailRequests) = Len(results) + 1

\* C19: every search request precedes every detail request; detail requests
\* go out one at a time in the order of the search results, record i being
\* appended before the request for item i+1 and a REQUEST_DELAY pause lying
\* between two successive requests; an invocation starts its list of records
\* empty whatever an earlier invocation left; and once scrape_places has
\* returned nothing more happens in that invocation.
C19_PhaseOrdering ==
    /\ [] C19_PhasesInOrder
    /\ [][pc = "sc_ret" => UNCHANGED vars]_vars

\* the detail request for the second item is in flight, the first record is
\* appended, on a scraper whose earlier invocation had returned a record
C19_Witness ==
    /\ pc = "gd_resp"
    /\ idx = 2
    /\ Len(DetailRequests) = 2
    /\ Len(results) = 1
    /\ ret # << >>

\* search_places has left its loop
SearchOver == pc \in {"sp_ret", "sc_ret"} \cup EnrichPcs

\* the loop of search_places was left only on an answer that was not a page
\* with a continuation token: no number of pages makes it stop
C20_LoopEndsOnProviderAnswerOnly ==
    SearchOver =>
        /\ answers # << >>
        /\ ~(IsPage(answers[Len(answers)]) /\ HasToken(answers[Len(answers)]))
        /\ \A i \in 1..(Len(answers) - 1) : IsPage(answers[i]) /\ HasToken(answers[i])

\* C20: search_places stops asking for pages only on an answer without a
\* continuation token, a ZERO_RESULTS or other non-OK status, or a failure,
\* never because of the number of pages; and with a provider that ends up
\* giving such an answer, every run of scrape_places reaches its return.
C20_EveryRunReachesDone ==
    /\ [] C20_LoopEndsOnProviderAnswerOnly
    /\ <>(pc = "sc_ret")

\* a run that followed the continuation token of the first page and
\* returned after its for loop
C20_Witness ==
    /\ pc = "sc_ret"
    /\ Len(answers) >= 2
    /\ HasToken(answers[1])
    /\ fetch_details
    /\ Len(ret) >= 2

====
